---- MODULE Spec2Model ----
(***************************************************************************)
(* Model of MuseCP/MuseCP.py: the MuseProcessor client of an Acurus Muse   *)
(* processor.  One instance is modelled.  The transport (the TCP socket)   *)
(* is the environment: every connect and every sendto picks one of the     *)
(* outcomes the socket library can produce.  _exec_appcommand_post is      *)
(* modelled statement by statement (labels L107..L125 are the source       *)
(* lines), per calling thread, so that call-level properties are read off  *)
(* the per-call event log when the call has returned.                      *)
(***************************************************************************)
EXTENDS Integers, Sequences, FiniteSets, TLC

\* ---------------------------------------------------------------- bounds
\* connections the environment lets the client open in one behaviour
MaxConn == 3
\* longest parameter string serialised by the payload specification
MaxParamLen == 2

\* ------------------------------------------------------------- constants
POWER_ON == "ON"
POWER_OFF == "OFF"
POWER_STANDBY == "STANDBY"
STATE_ON == "on"
STATE_OFF == "off"
\* Python's None as the value of a string-valued field
None == "None"
\* Python's None as the value of self._socket; connections are 1, 2, ...
NoSocket == 0
DefaultPort == 10025

DEFAULT_SOURCES ==
    <<"Disc", "STB", "Cable Sat", "Media Server", "DVR", "Radio", "TV",
      "USB", "Game", "Home Network", "AUX">>

COMMAND_MAPPING ==
    [POWER_OFF |-> "power-off", POWER_ON |-> "power-on", SLEEP |-> "sleep",
     VOLUME_UP |-> "volume-up", VOLUME_DOWN |-> "volume-down",
     MUTE_TOGGLE |-> "mute-toggle", PLAY |-> "play", PAUSE |-> "pause",
     NEXT |-> "next", PREVIOUS |-> "previous",
     SOURCE |-> "source-selection", HEARTBEAT |-> "heart-alive"]

\* threads that may call the instance
Threads == {1, 2}
\* arguments the callers pass: "Phono" is not in DEFAULT_SOURCES
SourceArgs == {"Disc", "Phono"}
VolumeArgs == {"0", "50"}

\* ------------------------------------------------------------ payload
\* Strings that reach the wire are sequences of Unicode code points; the
\* literals below are the string literals of _exec_appcommand_post.

\* '<?xml version="1.0" encoding="UTF ...                    <name>'
XmlHead ==
    <<60, 63, 120, 109, 108, 32, 118, 101, 114, 115, 105, 111, 110, 61, 34,
      49, 46, 48, 34, 32, 101, 110, 99, 111, 100, 105, 110, 103, 61, 34, 85,
      84, 70, 45, 56, 34, 63, 62, 10, 32, 32, 32, 32, 32, 32, 32, 32, 60,
      104, 97, 114, 109, 97, 110, 62, 10, 32, 32, 32, 32, 32, 32, 32, 32,
      32, 32, 32, 32, 60, 97, 118, 114, 62, 10, 32, 32, 32, 32, 32, 32, 32,
      32, 32, 32, 32, 32, 32, 32, 32, 32, 60, 99, 111, 109, 109, 111, 110,
      62, 10, 32, 32, 32, 32, 32, 32, 32, 32, 32, 32, 32, 32, 32, 32, 32,
      32, 32, 32, 32, 32, 60, 99, 111, 110, 116, 114, 111, 108, 62, 10, 32,
      32, 32, 32, 32, 32, 32, 32, 32, 32, 32, 32, 32, 32, 32, 32, 32, 32,
      32, 32, 32, 32, 32, 32, 60, 110, 97, 109, 101, 62>>

\* '</name>\n                        <zone>'
XmlNameToZone ==
    <<60, 47, 110, 97, 109, 101, 62, 10, 32, 32, 32, 32, 32, 32, 32, 32, 32,
      32, 32, 32, 32, 32, 32, 32, 32, 32, 32, 32, 32, 32, 32, 32, 60, 122,
      111, 110, 101, 62>>

\* '</zone>\n                        <para>'
XmlZoneToPara ==
    <<60, 47, 122, 111, 110, 101, 62, 10, 32, 32, 32, 32, 32, 32, 32, 32,
      32, 32, 32, 32, 32, 32, 32, 32, 32, 32, 32, 32, 32, 32, 32, 32, 60,
      112, 97, 114, 97, 62>>

\* '</para>\n                    </co ... </avr>\n        </harman>'
XmlTail ==
    <<60, 47, 112, 97, 114, 97, 62, 10, 32, 32, 32, 32, 32, 32, 32, 32, 32,
      32, 32, 32, 32, 32, 32, 32, 32, 32, 32, 32, 60, 47, 99, 111, 110, 116,
      114, 111, 108, 62, 10, 32, 32, 32, 32, 32, 32, 32, 32, 32, 32, 32, 32,
      32, 32, 32, 32, 60, 47, 99, 111, 109, 109, 111, 110, 62, 10, 32, 32,
      32, 32, 32, 32, 32, 32, 32, 32, 32, 32, 60, 47, 97, 118, 114, 62, 10,
      32, 32, 32, 32, 32, 32, 32, 32, 60, 47, 104, 97, 114, 109, 97, 110, 62>>

\* 'POST AVR HTTP/1.1\r\nHost: :'
RequestLine ==
    <<80, 79, 83, 84, 32, 65, 86, 82, 32, 72, 84, 84, 80, 47, 49, 46, 49,
      13, 10, 72, 111, 115, 116, 58, 32, 58>>

\* '\r\nUser-Agent: Harman Kardon AVR Remote Controller /2.0'
UserAgentHeader ==
    <<13, 10, 85, 115, 101, 114, 45, 65, 103, 101, 110, 116, 58, 32, 72, 97,
      114, 109, 97, 110, 32, 75, 97, 114, 100, 111, 110, 32, 65, 86, 82, 32,
      82, 101, 109, 111, 116, 101, 32, 67, 111, 110, 116, 114, 111, 108,
      108, 101, 114, 32, 47, 50, 46, 48>>

\* '\r\nContent-Length: '
ContentLengthHeader ==
    <<13, 10, 67, 111, 110, 116, 101, 110, 116, 45, 76, 101, 110, 103, 116,
      104, 58, 32>>

\* '\r\n\r\n'
HeaderEnd ==
    <<13, 10, 13, 10>>

\* the code points of the strings the model names: the wire tokens, the zone,
\* the empty default parameter and the source names
Chars ==
       "power-off" :> <<112, 111, 119, 101, 114, 45, 111, 102, 102>>
    @@ "power-on" :> <<112, 111, 119, 101, 114, 45, 111, 110>>
    @@ "sleep" :> <<115, 108, 101, 101, 112>>
    @@ "volume-up" :> <<118, 111, 108, 117, 109, 101, 45, 117, 112>>
    @@ "volume-down" :> <<118, 111, 108, 117, 109, 101, 45, 100, 111, 119, 110>>
    @@ "mute-toggle" :> <<109, 117, 116, 101, 45, 116, 111, 103, 103, 108, 101>>
    @@ "play" :> <<112, 108, 97, 121>>
    @@ "pause" :> <<112, 97, 117, 115, 101>>
    @@ "next" :> <<110, 101, 120, 116>>
    @@ "previous" :> <<112, 114, 101, 118, 105, 111, 117, 115>>
    @@ "source-selection" :> <<115, 111, 117, 114, 99, 101, 45, 115, 101, 108, 101, 99, 116, 105, 111,
          110>>
    @@ "heart-alive" :> <<104, 101, 97, 114, 116, 45, 97, 108, 105, 118, 101>>
    @@ "Main Zone" :> <<77, 97, 105, 110, 32, 90, 111, 110, 101>>
    @@ "" :> <<>>
    @@ "Disc" :> <<68, 105, 115, 99>>
    @@ "Phono" :> <<80, 104, 111, 110, 111>>

\* characters the serialised parameters are written in: A, e-acute, the euro
\* sign and an emoji, which encode to 1, 2, 3 and 4 bytes
ParamAlphabet == {65, 233, 8364, 128512}
ParamStrings == UNION {[1..n -> ParamAlphabet] : n \in 0..MaxParamLen}
CommandTokens == {Chars[COMMAND_MAPPING[k]] : k \in DOMAIN COMMAND_MAPPING}

\* str(n) for n >= 0
RECURSIVE str(_)
str(n) == IF n < 10 THEN <<48 + n>> ELSE str(n \div 10) \o <<48 + (n % 10)>>

\* the UTF-8 bytes of one code point
Utf8(c) ==
    IF c < 128 THEN <<c>>
    ELSE IF c < 2048 THEN <<192 + (c \div 64), 128 + (c % 64)>>
    ELSE IF c < 65536
      THEN <<224 + (c \div 4096), 128 + ((c \div 64) % 64), 128 + (c % 64)>>
      ELSE <<240 + (c \div 262144), 128 + ((c \div 4096) % 64),
             128 + ((c \div 64) % 64), 128 + (c % 64)>>

\* str.encode(): UTF-8
RECURSIVE encode(_)
encode(s) ==
    IF s = <<>> THEN <<>>
    ELSE IF Len(s) = 1 THEN Utf8(s[1])
    ELSE LET h == Len(s) \div 2
         IN  encode(SubSeq(s, 1, h)) \o encode(SubSeq(s, h + 1, Len(s)))

\* the xml string of _exec_appcommand_post
Xml(command, zn, param) ==
    XmlHead \o command \o XmlNameToZone \o zn \o XmlZoneToPara \o param \o XmlTail

\* the request string: xml.__len__() is the number of characters of xml
Request(command, zn, param) ==
    RequestLine \o str(DefaultPort) \o UserAgentHeader \o ContentLengthHeader
      \o str(Len(Xml(command, zn, param))) \o HeaderEnd \o Xml(command, zn, param)

VARIABLES
    _power,           \* self._power
    _state,           \* self._state
    _mute,            \* self._mute
    _current_source,  \* self._current_source
    _sources,         \* self._sources
    _zone,            \* self._zone
    _socket,          \* self._socket: NoSocket or the id of the held connection
    nConn,           \* connections opened so far (ids 1..nConn)
    closed,          \* connections on which close() was called
    pc,              \* per thread: position in the running call
    cur,             \* per thread: the running call (arguments, locals, event log)
    last,            \* the call that returned before the running one
    wcommand,        \* payload specification: command token (code points)
    wparam,          \* payload specification: parameter (code points)
    wsent            \* payload specification: bytes handed to sendto

devvars == <<_power, _state, _mute, _current_source, _sources, _zone>>
connvars == <<_socket, nConn, closed>>
wirevars == <<wcommand, wparam, wsent>>
vars == <<_power, _state, _mute, _current_source, _sources, _zone, _socket, nConn,
          closed, pc, cur, last, wcommand, wparam, wsent>>

\* the device-state fields and the connection, as one record
Snapshot ==
    [power |-> _power, state |-> _state, mute |-> _mute,
     current_source |-> _current_source, sources |-> _sources, zone |-> _zone,
     socket |-> _socket]

NoSnapshot ==
    [power |-> None, state |-> None, mute |-> STATE_OFF,
     current_source |-> None, sources |-> DEFAULT_SOURCES,
     zone |-> "Main Zone", socket |-> NoSocket]

NoCall ==
    [op |-> "none", arg |-> None, name |-> "", para |-> "",
     pre |-> NoSnapshot, log |-> <<>>, result |-> "pending", exc |-> "",
     overlap |-> FALSE]

NoLast ==
    [op |-> "none", arg |-> None, name |-> "", log |-> <<>>,
     result |-> "pending", premute |-> STATE_OFF]

NewCall(op, arg, name, para) ==
    [op |-> op, arg |-> arg, name |-> name, para |-> para,
     pre |-> Snapshot, log |-> <<>>, result |-> "pending", exc |-> "",
     overlap |-> FALSE]

\* events of the per-call log
ConnectEv(c) ==
    [ev |-> "connect", conn |-> c,
     resp |-> IF c = NoSocket THEN "refused" ELSE "ok", name |-> "", para |-> ""]
SendtoEv(c, r, call) ==
    [ev |-> "sendto", conn |-> c, resp |-> r, name |-> call.name, para |-> call.para]
CloseEv(c) ==
    [ev |-> "close", conn |-> c, resp |-> "", name |-> "", para |-> ""]

\* muted property
muted == _mute = STATE_ON
is_on == _state = STATE_ON
is_off == _state = STATE_OFF

\* _get_new_socket: a new connection, or None when connect raised
get_new_socket ==
    {NoSocket} \cup (IF nConn < MaxConn THEN {nConn + 1} ELSE {})

\* what sendto on a connected stream socket can do
SendtoOutcomes == {"sent", "zero", "ConnectionError", "OSError"}

Init ==
    /\ _power = None
    /\ _state = None
    /\ _mute = STATE_OFF
    /\ _current_source = None
    /\ _sources = DEFAULT_SOURCES
    /\ _zone = "Main Zone"
    /\ _socket \in {NoSocket, 1}
    /\ nConn = _socket
    /\ closed = {}
    /\ pc = [t \in Threads |-> "idle"]
    /\ cur = [t \in Threads |-> NoCall]
    /\ last = NoLast
    /\ wcommand = <<>>
    /\ wparam = <<>>
    /\ wsent = <<>>

\* ------------------------------------------------ _exec_appcommand_post
Goto(t, l) == pc' = [pc EXCEPT ![t] = l]
Log(t, e) == cur' = [cur EXCEPT ![t].log = Append(@, e)]
Raise(t, e) ==
    /\ pc' = [pc EXCEPT ![t] = "ret"]
    /\ cur' = [cur EXCEPT ![t].result = "raised", ![t].exc = e]
RaiseLogged(t, ev, e) ==
    /\ pc' = [pc EXCEPT ![t] = "ret"]
    /\ cur' = [cur EXCEPT ![t].result = "raised", ![t].exc = e,
                          ![t].log = Append(@, ev)]

\* thread u is inside _exec_appcommand_post
Running(u) == pc[u] \notin {"idle", "sent", "ret"}

\* send_command: comm = COMMAND_MAPPING[command], then the payload is built.
\* The call records whether it runs while another call is in
\* _exec_appcommand_post (never, when calls are serialized).
send_command(t, op, arg, command, param) ==
    /\ pc' = [pc EXCEPT ![t] = "L107"]
    /\ cur' = [u \in Threads |->
                 IF u = t
                   THEN [NewCall(op, arg, COMMAND_MAPPING[command], param)
                           EXCEPT !.overlap = \E v \in Threads \ {t} : Running(v)]
                   ELSE IF Running(u) THEN [cur[u] EXCEPT !.overlap = TRUE]
                   ELSE cur[u]]

\* if self._socket is None:
L107(t) ==
    /\ pc[t] = "L107"
    /\ Goto(t, IF _socket = NoSocket THEN "L108" ELSE "L109")
    /\ UNCHANGED <<devvars, connvars, cur, last, wirevars>>

\* self._socket = self._get_new_socket()
L108(t) ==
    /\ pc[t] = "L108"
    /\ \E s \in get_new_socket :
        /\ _socket' = s
        /\ nConn' = IF s = NoSocket THEN nConn ELSE s
        /\ Log(t, ConnectEv(s))
    /\ Goto(t, "L109")
    /\ UNCHANGED <<devvars, closed, last, wirevars>>

\* lines 109-111 missing: the transmission is attempted whatever connect gave
L109_nocheck(t) ==
    /\ pc[t] = "L109"
    /\ Goto(t, "L113")
    /\ UNCHANGED <<devvars, connvars, cur, last, wirevars>>

\* if self._socket is None: warning; return
L109(t) ==
    /\ pc[t] = "L109"
    /\ Goto(t, IF _socket = NoSocket THEN "sent" ELSE "L113")
    /\ UNCHANGED <<devvars, connvars, cur, last, wirevars>>

\* resp = self._socket.sendto(...); if resp == 0
L113(t) ==
    /\ pc[t] = "L113"
    /\ IF _socket = NoSocket
         THEN Raise(t, "AttributeError")
         ELSE \E r \in SendtoOutcomes :
                IF r = "OSError"
                  THEN RaiseLogged(t, SendtoEv(_socket, r, cur[t]), r)
                  ELSE /\ Log(t, SendtoEv(_socket, r, cur[t]))
                       /\ Goto(t, CASE r = "sent" -> "sent"
                                    [] r = "zero" -> "L116"
                                    [] r = "ConnectionError" -> "L121")
    /\ UNCHANGED <<devvars, connvars, last, wirevars>>

\* self._socket.close()
L116(t) ==
    /\ pc[t] = "L116"
    /\ IF _socket = NoSocket
         THEN Raise(t, "AttributeError") /\ UNCHANGED closed
         ELSE /\ closed' = closed \cup {_socket}
              /\ Log(t, CloseEv(_socket))
              /\ Goto(t, "L117")
    /\ UNCHANGED <<devvars, _socket, nConn, last, wirevars>>

\* line 117 missing: the closed socket stays in the field
L117_keep(t) ==
    /\ pc[t] = "L117"
    /\ Goto(t, "sent")
    /\ UNCHANGED <<devvars, connvars, cur, last, wirevars>>

\* self._socket = None; warning; the function returns
L117(t) ==
    /\ pc[t] = "L117"
    /\ _socket' = NoSocket
    /\ Goto(t, "sent")
    /\ UNCHANGED <<devvars, nConn, closed, cur, last, wirevars>>

\* line 121 missing: the broken socket stays in the field until line 122
L121_keep(t) ==
    /\ pc[t] = "L121"
    /\ Goto(t, "L122")
    /\ UNCHANGED <<devvars, connvars, cur, last, wirevars>>

\* except (BrokenPipeError, ConnectionError): self._socket = None
L121(t) ==
    /\ pc[t] = "L121"
    /\ _socket' = NoSocket
    /\ Goto(t, "L122")
    /\ UNCHANGED <<devvars, nConn, closed, cur, last, wirevars>>

\* self._socket = self._get_new_socket()
L122(t) ==
    /\ pc[t] = "L122"
    /\ \E s \in get_new_socket :
        /\ _socket' = s
        /\ nConn' = IF s = NoSocket THEN nConn ELSE s
        /\ Log(t, ConnectEv(s))
    /\ Goto(t, "L123")
    /\ UNCHANGED <<devvars, closed, last, wirevars>>

\* line 123 missing: the retransmission is attempted whatever reconnect gave
L123_nocheck(t) ==
    /\ pc[t] = "L123"
    /\ Goto(t, "L125")
    /\ UNCHANGED <<devvars, connvars, cur, last, wirevars>>

\* a generic retry loop: a failed reconnect is tried again
L123_loop(t) ==
    /\ pc[t] = "L123"
    /\ Goto(t, IF _socket # NoSocket THEN "L125" ELSE "L122")
    /\ UNCHANGED <<devvars, connvars, cur, last, wirevars>>

\* if self._socket is not None:
L123(t) ==
    /\ pc[t] = "L123"
    /\ Goto(t, IF _socket # NoSocket THEN "L125" ELSE "sent")
    /\ UNCHANGED <<devvars, connvars, cur, last, wirevars>>

\* L125 with a retry loop: a failed retransmission starts the recovery again
L125_retry(t) ==
    /\ pc[t] = "L125"
    /\ IF _socket = NoSocket
         THEN Raise(t, "AttributeError")
         ELSE \E r \in SendtoOutcomes :
                IF r = "OSError"
                  THEN RaiseLogged(t, SendtoEv(_socket, r, cur[t]), r)
                  ELSE /\ Log(t, SendtoEv(_socket, r, cur[t]))
                       /\ Goto(t, IF r = "ConnectionError" THEN "L121" ELSE "sent")
    /\ UNCHANGED <<devvars, connvars, last, wirevars>>

\* self._socket.sendto(...) inside the except handler: the result is not
\* looked at, and an exception raised here is not handled
L125(t) ==
    /\ pc[t] = "L125"
    /\ IF _socket = NoSocket
         THEN Raise(t, "AttributeError")
         ELSE \E r \in SendtoOutcomes :
                IF r \in {"ConnectionError", "OSError"}
                  THEN RaiseLogged(t, SendtoEv(_socket, r, cur[t]), r)
                  ELSE /\ Log(t, SendtoEv(_socket, r, cur[t]))
                       /\ Goto(t, "sent")
    /\ UNCHANGED <<devvars, connvars, last, wirevars>>

\* ------------------------------------------------------ action methods
BoolStr(b) == IF b THEN "True" ELSE "False"

\* a method that returns without calling send_command
ReturnAtOnce(t, op, arg, res) ==
    /\ pc' = [pc EXCEPT ![t] = "ret"]
    /\ cur' = [cur EXCEPT ![t] = [NewCall(op, arg, "", "") EXCEPT !.result = res]]

\* return True after send_command returned
ReturnTrue(t) ==
    /\ pc' = [pc EXCEPT ![t] = "ret"]
    /\ cur' = [cur EXCEPT ![t].result = "True"]

power_on(t) ==
    /\ pc[t] = "idle"
    /\ send_command(t, "power_on", None, "POWER_ON", "")
    /\ UNCHANGED <<devvars, connvars, last, wirevars>>

power_on_ok(t) ==
    /\ pc[t] = "sent" /\ cur[t].op = "power_on"
    /\ _power' = POWER_ON
    /\ _state' = STATE_ON
    /\ ReturnTrue(t)
    /\ UNCHANGED <<_mute, _current_source, _sources, _zone, connvars, last, wirevars>>

power_off(t) ==
    /\ pc[t] = "idle"
    /\ send_command(t, "power_off", None, "POWER_OFF", "")
    /\ UNCHANGED <<devvars, connvars, last, wirevars>>

\* power_off recording standby, the third value the power property documents
power_off_ok_standby(t) ==
    /\ pc[t] = "sent" /\ cur[t].op = "power_off"
    /\ _power' = POWER_STANDBY
    /\ _state' = STATE_OFF
    /\ ReturnTrue(t)
    /\ UNCHANGED <<_mute, _current_source, _sources, _zone, connvars, last, wirevars>>

power_off_ok(t) ==
    /\ pc[t] = "sent" /\ cur[t].op = "power_off"
    /\ _power' = POWER_OFF
    /\ _state' = STATE_OFF
    /\ ReturnTrue(t)
    /\ UNCHANGED <<_mute, _current_source, _sources, _zone, connvars, last, wirevars>>

sleep(t) ==
    /\ pc[t] = "idle"
    /\ send_command(t, "sleep", None, "SLEEP", "")
    /\ UNCHANGED <<devvars, connvars, last, wirevars>>

\* sleep recording the standby it asks for
sleep_ok_standby(t) ==
    /\ pc[t] = "sent" /\ cur[t].op = "sleep"
    /\ _power' = POWER_STANDBY
    /\ ReturnTrue(t)
    /\ UNCHANGED <<_state, _mute, _current_source, _sources, _zone, connvars, last, wirevars>>

sleep_ok(t) ==
    /\ pc[t] = "sent" /\ cur[t].op = "sleep"
    /\ ReturnTrue(t)
    /\ UNCHANGED <<devvars, connvars, last, wirevars>>

volume_up(t) ==
    /\ pc[t] = "idle"
    /\ send_command(t, "volume_up", None, "VOLUME_UP", "")
    /\ UNCHANGED <<devvars, connvars, last, wirevars>>

volume_up_ok(t) ==
    /\ pc[t] = "sent" /\ cur[t].op = "volume_up"
    /\ ReturnTrue(t)
    /\ UNCHANGED <<devvars, connvars, last, wirevars>>

volume_down(t) ==
    /\ pc[t] = "idle"
    /\ send_command(t, "volume_down", None, "VOLUME_DOWN", "")
    /\ UNCHANGED <<devvars, connvars, last, wirevars>>

volume_down_ok(t) ==
    /\ pc[t] = "sent" /\ cur[t].op = "volume_down"
    /\ ReturnTrue(t)
    /\ UNCHANGED <<devvars, connvars, last, wirevars>>

\* set_volume reporting success
set_volume_true(t, volume) ==
    /\ pc[t] = "idle"
    /\ ReturnAtOnce(t, "set_volume", volume, "True")
    /\ UNCHANGED <<devvars, connvars, last, wirevars>>

set_volume(t, volume) ==
    /\ pc[t] = "idle"
    /\ ReturnAtOnce(t, "set_volume", volume, "False")
    /\ UNCHANGED <<devvars, connvars, last, wirevars>>

select_source(t, source) ==
    /\ pc[t] = "idle"
    /\ send_command(t, "select_source", source, "SOURCE", source)
    /\ UNCHANGED <<devvars, connvars, last, wirevars>>

\* select_source accepting only the names of the sources list
select_source_ok_validated(t) ==
    /\ pc[t] = "sent" /\ cur[t].op = "select_source"
    /\ _current_source' =
         IF \E i \in 1..Len(_sources) : _sources[i] = cur[t].arg
           THEN cur[t].arg ELSE _current_source
    /\ ReturnTrue(t)
    /\ UNCHANGED <<_power, _state, _mute, _sources, _zone, connvars, last, wirevars>>

select_source_ok(t) ==
    /\ pc[t] = "sent" /\ cur[t].op = "select_source"
    /\ _current_source' = cur[t].arg
    /\ ReturnTrue(t)
    /\ UNCHANGED <<_power, _state, _mute, _sources, _zone, connvars, last, wirevars>>

\* mute sending the toggle whatever the local flag is
mute_unconditional(t, flag) ==
    /\ pc[t] = "idle"
    /\ send_command(t, "mute", BoolStr(flag), "MUTE_TOGGLE", "")
    /\ UNCHANGED <<devvars, connvars, last, wirevars>>

\* mute(mute): the toggle is sent only when the flag differs from self._mute;
\* otherwise the method falls off its end and returns None
mute(t, flag) ==
    /\ pc[t] = "idle"
    /\ IF \/ flag /\ _mute = STATE_OFF
          \/ ~flag /\ _mute = STATE_ON
         THEN send_command(t, "mute", BoolStr(flag), "MUTE_TOGGLE", "")
         ELSE ReturnAtOnce(t, "mute", BoolStr(flag), "None")
    /\ UNCHANGED <<devvars, connvars, last, wirevars>>

mute_ok(t) ==
    /\ pc[t] = "sent" /\ cur[t].op = "mute"
    /\ _mute' = IF cur[t].arg = "True" THEN STATE_ON ELSE STATE_OFF
    /\ ReturnTrue(t)
    /\ UNCHANGED <<_power, _state, _current_source, _sources, _zone, connvars, last, wirevars>>

\* control is back at the caller; the call becomes the previous call
Return(t) ==
    /\ pc[t] = "ret"
    /\ pc' = [pc EXCEPT ![t] = "idle"]
    /\ last' = [op |-> cur[t].op, arg |-> cur[t].arg, name |-> cur[t].name,
                 log |-> cur[t].log, result |-> cur[t].result,
                 premute |-> cur[t].pre.mute]
    /\ cur' = [cur EXCEPT ![t] = NoCall]
    /\ UNCHANGED <<devvars, connvars, wirevars>>

\* ------------------------------------------- payload specification
\* the payload of one command: lines 89-105 build it, line 113 encodes it
InitWire ==
    /\ _power = None
    /\ _state = None
    /\ _mute = STATE_OFF
    /\ _current_source = None
    /\ _sources = DEFAULT_SOURCES
    /\ _zone = "Main Zone"
    /\ _socket = 1
    /\ nConn = 1
    /\ closed = {}
    /\ pc = [t \in Threads |-> "idle"]
    /\ cur = [t \in Threads |-> NoCall]
    /\ last = NoLast
    /\ wcommand \in CommandTokens
    /\ wparam \in ParamStrings
    /\ wsent = <<>>

exec_appcommand_payload ==
    /\ wsent = <<>>
    /\ wsent' = encode(Request(wcommand, Chars[_zone], wparam))
    /\ UNCHANGED <<devvars, connvars, pc, cur, last, wcommand, wparam>>

NextWire == exec_appcommand_payload

SpecWire == InitWire /\ [][NextWire]_vars

\* ------------------------------------------------------- specifications
\* the spec's model: calls on the instance never overlap.  Calls that do not
\* overlap are the calls of one caller (no caller keeps anything between its
\* calls), so the serialized specification runs one of the threads
SerialCallers == {1}

Call(t) ==
    \/ power_on(t)
    \/ power_off(t)
    \/ sleep(t)
    \/ volume_up(t)
    \/ volume_down(t)
    \/ \E v \in VolumeArgs : set_volume(t, v)
    \/ \E s \in SourceArgs : select_source(t, s)
    \/ \E f \in BOOLEAN : mute(t, f)

Step(t) ==
    \/ L107(t) \/ L108(t) \/ L109(t) \/ L113(t) \/ L116(t) \/ L117(t)
    \/ L121(t) \/ L122(t) \/ L123(t) \/ L125(t)
    \/ power_on_ok(t) \/ power_off_ok(t) \/ sleep_ok(t) \/ volume_up_ok(t)
    \/ volume_down_ok(t) \/ select_source_ok(t) \/ mute_ok(t)
    \/ Return(t)

Next == \E t \in SerialCallers : Call(t) \/ Step(t)

Spec == Init /\ [][Next]_vars

\* calls that overlap: the spec leaves them undefined for the recovery path.
\* Each of two threads makes one call, power_on() or sleep(), with no
\* serialization; each line of _exec_appcommand_post is one step, and the
\* calls may run one after the other or interleave in any way.
ConcCall(t) ==
    \/ power_on(t)
    \/ sleep(t)

ConcStep(t) ==
    \/ L107(t) \/ L108(t) \/ L109(t) \/ L113(t) \/ L116(t) \/ L117(t)
    \/ L121(t) \/ L122(t) \/ L123(t) \/ L125(t)
    \/ power_on_ok(t) \/ sleep_ok(t)

NextConc == \E t \in Threads : ConcCall(t) \/ ConcStep(t)

SpecConc == Init /\ [][NextConc]_vars

\* --------------------------------------------------- reading a call's log
Sendtos(log) == SelectSeq(log, LAMBDA e : e.ev = "sendto")
\* the payload was handed to the transport: some sendto accepted it
Delivered(log) == \E i \in 1..Len(log) : log[i].ev = "sendto" /\ log[i].resp = "sent"
\* the transport did nothing wrong during the call
Deliverable(log) ==
    \A i \in 1..Len(log) :
        /\ log[i].ev = "connect" => log[i].conn # NoSocket
        /\ log[i].ev = "sendto" => log[i].resp = "sent"
\* connections on which the call saw a transmission fail
FailedOn(log) ==
    {log[i].conn : i \in {j \in 1..Len(log) :
                            log[j].ev = "sendto" /\ log[j].resp # "sent"}}
\* the device-state fields are what they were when the call began
StateKept(call) ==
    /\ _power = call.pre.power
    /\ _state = call.pre.state
    /\ _mute = call.pre.mute
    /\ _current_source = call.pre.current_source
    /\ _sources = call.pre.sources
    /\ _zone = call.pre.zone
\* the call met only the transport failures the spec names: refused connect,
\* zero bytes accepted, broken pipe / connection reset on the first
\* transmission, any failure of the retransmission
NamedFailuresOnly(log) ==
    LET tx == Sendtos(log) IN tx # <<>> => tx[1].resp # "OSError"
InSources(x) == \E i \in 1..Len(_sources) : _sources[i] = x

\* ------------------------------------------------------------------ C1
\* C1: a power_on, power_off, select_source or mute call during which no
\* payload was transmitted leaves power, coarse state, mute flag and current
\* source as they were before the call.
C1_NoTransmissionNoStateChange ==
    \A t \in Threads :
        (/\ pc[t] = "ret"
         /\ cur[t].op \in {"power_on", "power_off", "select_source", "mute"}
         /\ Sendtos(cur[t].log) = <<>>)
        => /\ _power = cur[t].pre.power
           /\ _state = cur[t].pre.state
           /\ _mute = cur[t].pre.mute
           /\ _current_source = cur[t].pre.current_source

\* ------------------------------------------------------------------ C2
\* C2: an action that called send_command returns True only when the payload
\* was transmitted and returns False when it was not.
C2_ResultReportsDelivery ==
    \A t \in Threads :
        (pc[t] = "ret" /\ cur[t].name # "")
        => /\ cur[t].result = "True" => Delivered(cur[t].log)
           /\ ~Delivered(cur[t].log) => cur[t].result = "False"

\* ------------------------------------------------------------------ C3
\* C3: a call whose transport failures are a connect failure, zero bytes
\* accepted, a broken pipe or connection reset on the first transmission, or
\* any failure of the retransmission, returns normally (does not raise).
C3_NeverRaises ==
    \A t \in Threads :
        (/\ pc[t] = "ret"
         /\ NamedFailuresOnly(cur[t].log))
        => cur[t].result # "raised"

\* ------------------------------------------------------------------ C4
\* C4: when the first transmission of a call raises a broken-pipe/connection
\* error, the call makes exactly one reconnect attempt; if it succeeds the
\* same payload is transmitted exactly once more, on the new connection; if
\* it fails nothing more is attempted and the connection is absent when the
\* call ends.
C4_OneReconnectOneRetransmission ==
    \A t \in Threads :
        pc[t] = "ret" =>
            LET log == cur[t].log
            IN  \A i \in 1..Len(log) :
                  (/\ log[i].ev = "sendto"
                   /\ log[i].resp = "ConnectionError"
                   /\ \A j \in 1..(i - 1) : log[j].ev # "sendto")
                  => /\ Len(log) > i
                     /\ log[i + 1].ev = "connect"
                     /\ IF log[i + 1].conn # NoSocket
                          THEN /\ Len(log) = i + 2
                               /\ log[i + 2].ev = "sendto"
                               /\ log[i + 2].conn = log[i + 1].conn
                               /\ log[i + 2].conn # log[i].conn
                               /\ log[i + 2].name = log[i].name
                               /\ log[i + 2].para = log[i].para
                          ELSE /\ Len(log) = i + 1
                               /\ _socket = NoSocket

\* a call ended after broken pipe, successful reconnect and retransmission
C4_Witness ==
    \E t \in Threads :
        /\ pc[t] = "ret"
        /\ Len(cur[t].log) = 3
        /\ cur[t].log[1].ev = "sendto" /\ cur[t].log[1].resp = "ConnectionError"
        /\ cur[t].log[2].ev = "connect" /\ cur[t].log[2].conn # NoSocket
        /\ cur[t].log[3].ev = "sendto" /\ cur[t].log[3].resp = "sent"

\* ------------------------------------------------------------------ C5
\* C5: the command after a failed command (send_command was called, the
\* payload was not delivered, the failures were of the named kinds) makes a connect attempt before it transmits,
\* transmits on no connection on which the failed command saw a failure,
\* and is delivered when the transport then works.
FailedCommand(call) == call.name # "" /\ ~Delivered(call.log)

C5_FreshConnectionAfterFailure ==
    \A t \in Threads :
        (/\ pc[t] = "ret"
         /\ FailedCommand(last) /\ NamedFailuresOnly(last.log)
         /\ cur[t].name # "")
        => LET tx == Sendtos(cur[t].log)
           IN  /\ tx # <<>> => cur[t].log[1].ev = "connect"
               /\ \A i \in 1..Len(tx) : tx[i].conn \notin FailedOn(last.log)
               /\ Deliverable(cur[t].log) => Delivered(cur[t].log)

\* ------------------------------------------------------------------ C6
\* C6: mute(flag) with flag equal to the local muted state connects and
\* transmits nothing and changes neither the device state nor the connection;
\* a mute(flag) that follows a mute(flag) (which met only failures of the
\* named kinds, if any) is such a call.
C6_MuteIdempotent ==
    \A t \in Threads :
        (/\ pc[t] = "ret"
         /\ cur[t].op = "mute"
         /\ \/ cur[t].arg = BoolStr(cur[t].pre.mute = STATE_ON)
            \/ /\ last.op = "mute" /\ last.arg = cur[t].arg
               /\ NamedFailuresOnly(last.log))
        => /\ cur[t].log = <<>>
           /\ StateKept(cur[t])
           /\ _socket = cur[t].pre.socket

\* ------------------------------------------------------------------ C7
\* C7 as claimed: mute(False) then mute(True) on a deliverable transport:
\* each call makes exactly one transmission, muted is false after the first
\* and true after the second.
C7_EachCallTransmitsOnce ==
    \A t \in Threads :
        (/\ pc[t] = "ret"
         /\ last.op = "mute" /\ last.arg = "False"
         /\ cur[t].op = "mute" /\ cur[t].arg = "True"
         /\ Deliverable(last.log) /\ Deliverable(cur[t].log))
        => /\ Len(Sendtos(last.log)) = 1
           /\ Len(Sendtos(cur[t].log)) = 1
           /\ cur[t].pre.mute = STATE_OFF
           /\ _mute = STATE_ON

\* C7 amended: the first call transmits once when the client was muted
\* before it and not at all when it was unmuted; the second call transmits
\* once; every transmission is the mute-toggle command; muted is false after
\* the first call and true after the second.
C7_ToggleOnlyOnChange ==
    \A t \in Threads :
        (/\ pc[t] = "ret"
         /\ last.op = "mute" /\ last.arg = "False"
         /\ cur[t].op = "mute" /\ cur[t].arg = "True"
         /\ Deliverable(last.log) /\ Deliverable(cur[t].log))
        => /\ Len(Sendtos(last.log)) = IF last.premute = STATE_ON THEN 1 ELSE 0
           /\ Len(Sendtos(cur[t].log)) = 1
           /\ \A i \in 1..Len(last.log) :
                last.log[i].ev = "sendto" => last.log[i].name = COMMAND_MAPPING.MUTE_TOGGLE
           /\ \A i \in 1..Len(cur[t].log) :
                cur[t].log[i].ev = "sendto" => cur[t].log[i].name = COMMAND_MAPPING.MUTE_TOGGLE
           /\ cur[t].pre.mute = STATE_OFF
           /\ _mute = STATE_ON

\* mute(False) while muted, then mute(True), both delivered
C7_Witness ==
    \E t \in Threads :
        /\ pc[t] = "ret"
        /\ last.op = "mute" /\ last.arg = "False" /\ last.premute = STATE_ON
        /\ cur[t].op = "mute" /\ cur[t].arg = "True"
        /\ Delivered(last.log) /\ Deliverable(last.log)
        /\ Delivered(cur[t].log) /\ Deliverable(cur[t].log)
        /\ _mute = STATE_ON

\* ------------------------------------------------------------------ C8
\* C8: set_volume returns False at once for every level and in every state:
\* no connect, no transmission, connection and device state unchanged.
C8_SetVolumeUnsupported ==
    \A t \in Threads :
        cur[t].op = "set_volume"
        => /\ pc[t] = "ret"
           /\ cur[t].result = "False"
           /\ cur[t].log = <<>>
           /\ StateKept(cur[t])
           /\ _socket = cur[t].pre.socket

\* set_volume returned while no connection was held and the device was on
C8_Witness ==
    \E t \in Threads :
        /\ pc[t] = "ret"
        /\ cur[t].op = "set_volume" /\ cur[t].arg = "50"
        /\ _socket = NoSocket
        /\ _power = POWER_ON

\* ------------------------------------------------------------------ C9
\* C9: every transmission of select_source(name) carries the source-selection
\* token with name as parameter; a select_source(name) whose payload was
\* transmitted returns True; one that returns True has set the current source
\* to name, in the sources list or not, and changed no other device field.
C9_SelectSourceSetsRequestedName ==
    \A t \in Threads :
        cur[t].op = "select_source"
        => /\ \A i \in 1..Len(cur[t].log) :
                cur[t].log[i].ev = "sendto"
                => /\ cur[t].log[i].name = COMMAND_MAPPING.SOURCE
                   /\ cur[t].log[i].para = cur[t].arg
           /\ (pc[t] = "ret" /\ Delivered(cur[t].log)) => cur[t].result = "True"
           /\ (pc[t] = "ret" /\ cur[t].result = "True")
              => /\ _current_source = cur[t].arg
                 /\ _power = cur[t].pre.power
                 /\ _state = cur[t].pre.state
                 /\ _mute = cur[t].pre.mute
                 /\ _sources = cur[t].pre.sources

\* a delivered select_source of a name that is not in the sources list
C9_Witness ==
    \E t \in Threads :
        /\ pc[t] = "ret"
        /\ cur[t].op = "select_source"
        /\ ~InSources(cur[t].arg)
        /\ Delivered(cur[t].log)
        /\ cur[t].pre.current_source # cur[t].arg
        /\ _current_source = cur[t].arg

\* ----------------------------------------------------------------- C10
\* reading the transmitted bytes back, as the receiver of the request would
FindAfter(sub, s, from) ==
    LET hits == {i \in from..(Len(s) - Len(sub) + 1) :
                    SubSeq(s, i, i + Len(sub) - 1) = sub}
    IN  IF hits = {} THEN 0 ELSE CHOOSE i \in hits : \A j \in hits : i <= j
RECURSIVE ParseInt(_)
ParseInt(d) ==
    IF d = <<>> THEN 0
    ELSE 10 * ParseInt(SubSeq(d, 1, Len(d) - 1)) + (d[Len(d)] - 48)
\* the bytes between the first occurrence of open and the next close
Between(s, open, close) ==
    LET i == FindAfter(open, s, 1)
        j == FindAfter(close, s, i + Len(open))
    IN  SubSeq(s, i + Len(open), j - 1)
\* the value of the Content-Length header of the transmitted request
DeclaredLength(bytes) == ParseInt(Between(bytes, encode(ContentLengthHeader), <<13>>))
\* the bytes that follow the blank line
TransmittedBody(bytes) ==
    SubSeq(bytes, FindAfter(HeaderEnd, bytes, 1) + Len(HeaderEnd), Len(bytes))
NameOpen == <<60, 110, 97, 109, 101, 62>>
NameClose == <<60, 47, 110, 97, 109, 101, 62>>
ParaOpen == <<60, 112, 97, 114, 97, 62>>
ParaClose == <<60, 47, 112, 97, 114, 97, 62>>

\* C10: the Content-Length written in the transmitted request is the number
\* of bytes of the transmitted XML body, and the body carries the token
\* inside <name> and the parameter inside <para>, verbatim.
C10_ContentLengthIsBodyByteLength ==
    wsent # <<>>
    => /\ DeclaredLength(wsent) = Len(TransmittedBody(wsent))
       /\ Between(TransmittedBody(wsent), NameOpen, NameClose) = encode(wcommand)
       /\ Between(TransmittedBody(wsent), ParaOpen, ParaClose) = encode(wparam)

\* ----------------------------------------------------------------- C11
\* C11: during and after sleep(), volume_up() and volume_down(), whatever the
\* transport does, power, coarse state, mute flag, current source, sources
\* list and zone are what they were when the call began.
C11_NoStateChange ==
    \A t \in Threads :
        cur[t].op \in {"sleep", "volume_up", "volume_down"} => StateKept(cur[t])

\* a sleep() on a powered-on, muted device that lost its connection
C11_Witness ==
    \E t \in Threads :
        /\ pc[t] = "ret"
        /\ cur[t].op = "sleep"
        /\ _power = POWER_ON /\ _mute = STATE_ON
        /\ FailedOn(cur[t].log) # {}
        /\ _socket # cur[t].pre.socket

\* ----------------------------------------------------------------- C12
\* C12: the coarse state starts unset; every step that changes it is the
\* completion of a power_off() whose payload was transmitted (to off) or of a
\* power_on() whose payload was transmitted (to on); it never becomes unset.
C12_StateChangesOnlyOnPowerSuccess ==
    /\ _state = None
    /\ [][_state' # _state =>
            \E t \in Threads :
                /\ pc[t] = "sent" /\ pc'[t] = "ret"
                /\ Delivered(cur[t].log)
                /\ \/ _state' = STATE_OFF /\ cur[t].op = "power_off"
                   \/ _state' = STATE_ON /\ cur[t].op = "power_on"]_vars

\* ----------------------------------------------------------------- C13
\* C13: when a call has ended, no connection on which one of its
\* transmissions failed (zero bytes accepted or an error raised, first
\* transmission or retransmission) is the held connection: the connection
\* field is absent or a connection opened later.
C13_FailedConnectionNotKept ==
    \A t \in Threads :
        (pc[t] = "ret" /\ NamedFailuresOnly(cur[t].log))
        => \A c \in FailedOn(cur[t].log) : _socket = NoSocket \/ _socket > c

\* ----------------------------------------------------------------- C14
\* C14: when the first transmission of a call reports zero bytes accepted,
\* the only transport operation the call makes after it is the close of that
\* connection; when the call has ended it has returned (not raised), the
\* connection is closed and the connection field is absent.
C14_ZeroBytesDiscardsWithoutRetry ==
    \A t \in Threads :
        LET log == cur[t].log
        IN  \A i \in 1..Len(log) :
              (/\ log[i].ev = "sendto"
               /\ log[i].resp = "zero"
               /\ \A j \in 1..(i - 1) : log[j].ev # "sendto")
              => /\ Len(log) <= i + 1
                 /\ Len(log) = i + 1 => log[i + 1] = CloseEv(log[i].conn)
                 /\ pc[t] = "ret"
                    => /\ Len(log) = i + 1
                       /\ log[i].conn \in closed
                       /\ _socket = NoSocket
                       /\ cur[t].result # "raised"

\* a call that connected, got zero bytes accepted and has returned
C14_Witness ==
    \E t \in Threads :
        /\ pc[t] = "ret"
        /\ Len(cur[t].log) = 3
        /\ cur[t].log[1].ev = "connect" /\ cur[t].log[1].conn # NoSocket
        /\ cur[t].log[2].ev = "sendto" /\ cur[t].log[2].resp = "zero"
        /\ cur[t].log[3].ev = "close"
        /\ _socket = NoSocket

\* ----------------------------------------------------------------- C15
\* C15: a send call that starts with no connection held makes one connect
\* attempt, and makes it before any transmission; when that attempt fails the
\* call does nothing more on the transport, returns without raising, and the
\* connection field is absent.
C15_OneConnectThenDrop ==
    \A t \in Threads :
        (cur[t].name # "" /\ cur[t].pre.socket = NoSocket)
        => LET log == cur[t].log
           IN  /\ log # <<>> => log[1].ev = "connect"
               /\ Len(log) >= 2 => log[1].conn # NoSocket /\ log[2].ev = "sendto"
               /\ pc[t] \in {"sent", "ret"}
                  => /\ log # <<>>
                     /\ log[1].conn = NoSocket
                        => /\ Len(log) = 1
                           /\ cur[t].result # "raised"
                           /\ _socket = NoSocket

\* a command dropped after a refused connect
C15_Witness ==
    \E t \in Threads :
        /\ pc[t] = "ret"
        /\ cur[t].name # "" /\ cur[t].pre.socket = NoSocket
        /\ Len(cur[t].log) = 1
        /\ cur[t].log[1].ev = "connect" /\ cur[t].log[1].conn = NoSocket

\* ----------------------------------------------------------------- C16
\* statements of a call still to run, at most, from each position
StepsLeft ==
    [idle |-> 0, ret |-> 1, sent |-> 2, L125 |-> 3, L123 |-> 4, L122 |-> 5,
     L121 |-> 6, L117 |-> 5, L116 |-> 6, L113 |-> 7, L109 |-> 8, L108 |-> 9,
     L107 |-> 10]
\* connect attempts of a log that follow a transmission
Reconnects(log) ==
    {i \in 1..Len(log) :
        log[i].ev = "connect" /\ \E j \in 1..(i - 1) : log[j].ev = "sendto"}

\* C16: a call makes at most two transmissions of its payload, a second one
\* only after the first raised a connection error, at most one reconnect
\* after a failed transmission and at most one connect before the first
\* transmission; every step of a running call brings it closer to its end,
\* so no statement is run twice.
C16_BoundedSend ==
    /\ [](\A t \in Threads :
            LET log == cur[t].log
                tx == Sendtos(log)
            IN  /\ Len(tx) <= 2
                /\ Len(tx) = 2 => tx[1].resp = "ConnectionError"
                /\ Cardinality(Reconnects(log)) <= 1
                /\ Len(log) <= 4)
    /\ [][\A t \in Threads :
            (pc[t] \notin {"idle", "ret"} /\ pc'[t] # pc[t])
            => StepsLeft[pc'[t]] < StepsLeft[pc[t]]]_vars

\* a call that connected, transmitted, reconnected and retransmitted
C16_Witness ==
    \E t \in Threads :
        /\ pc[t] = "ret"
        /\ Len(cur[t].log) = 4
        /\ Len(Sendtos(cur[t].log)) = 2
        /\ Cardinality(Reconnects(cur[t].log)) = 1

C19_TransmitOnlyOnHeldConnection ==
    \A t \in Threads :
        /\ pc[t] \in {"L113", "L125"} => _socket # NoSocket
        /\ \A i \in 1..Len(cur[t].log) :
              cur[t].log[i].ev = "sendto" => cur[t].log[i].conn # NoSocket
        /\ cur[t].exc # "AttributeError"

\* a call about to retransmit on the connection it has just opened
C19_Witness ==
    \E t \in Threads :
        /\ pc[t] = "L125"
        /\ cur[t].pre.socket # NoSocket
        /\ _socket > cur[t].pre.socket

\* ----------------------------------------------------------------- C17
\* C17: the recovery sequence is not protected against interleaving.  With
\* two unserialized calls there are reachable interleavings (the witness) in
\* which one call discards the connection between the other call's check and
\* its transmission, so that the transmission is attempted on an absent
\* connection; and these anomalies are the work of interleaving alone: a
\* transmission on an absent connection, and a held, unclosed connection
\* overwritten by a new one, happen only in calls that overlap another call.
C17_AnomaliesOnlyWhenCallsOverlap ==
    /\ [](\A t \in Threads : cur[t].exc = "AttributeError" => cur[t].overlap)
    /\ [][(/\ _socket # NoSocket
           /\ _socket \notin closed
           /\ _socket' \notin {NoSocket, _socket})
          => \E t \in Threads : pc'[t] # pc[t] /\ cur[t].overlap]_vars

\* a call passed its connection check, the other call discarded the
\* connection, and the transmission found self._socket to be None
C17_Witness ==
    \E t \in Threads :
        /\ pc[t] = "ret"
        /\ cur[t].exc = "AttributeError"
        /\ Sendtos(cur[t].log) = <<>>
        /\ \E u \in Threads \ {t} : FailedOn(cur[u].log) # {}

====
